---- MODULE Spec2Model ----
(***************************************************************************)
(* FIX tag-value raw framing (fefix): HeaderInfo::parse, RawDecoder::decode *)
(* and RawDecoderBuffered of tagvalue/raw_decoder.rs.                       *)
(*                                                                         *)
(* Bytes are the integers 0..255 and a byte slice is a sequence of them.   *)
(* Indices into slices are the code's 0-based indices; a Range<usize> is a  *)
(* pair <<start, end>> (half open).  usize arithmetic is kept modulo        *)
(* 2^UsizeBits.                                                             *)
(***************************************************************************)
EXTENDS Integers, Sequences, FiniteSets, TLC

VARIABLES
    data,             \* the slice handed to RawDecoder::decode
    separator,        \* Config::separator()
    verify_checksum,  \* Config::verify_checksum()
    overflow_checks,  \* build profile: TRUE = `+` panics on overflow (debug)
    pc,               \* "input" | "decoded" | "altered" | "buffered"
    result,           \* what decode returned
    buffer,           \* RawDecoderBuffered::buffer
    parsing_err,      \* RawDecoderBuffered::parsing_err ("None" or an error)
    stream,           \* bytes the caller has not yet copied into the decoder
    last,             \* what the last RawDecoderBuffered call returned
    prev,             \* what the RawDecoderBuffered call before the last returned
    erred,            \* raw_frame has returned an Err since the last clear()
    frames,           \* the frames the stream was concatenated from
    emitted,          \* the frames raw_frame has returned, oldest first
    it,               \* the Entries iterator: group, i, max_i_plus_one
    it_last,          \* what the last call on the iterator returned, and whether
                      \* a call before it had returned None
    yields,           \* the entries the iterator has yielded, oldest first
    none_seen,        \* next() or next_back() has returned None
    called,           \* the methods that have been called on the iterator
    message,          \* the FieldAccess implementor: its raw fields and groups
    access_last,      \* the last FieldAccess call: method, tag, what it returned
    encoder,          \* Encoder::buffer and EncoderHandle::body_start_i
    encoded,          \* what the caller gave start_message and appended since,
                      \* and whether the buffer held an earlier message then
    codec_in,         \* the FixFieldValue call under study: type, bytes or value
    codec_out         \* what that call returned, and the buffer after it

vars == <<data, separator, verify_checksum, overflow_checks, pc, result,
          buffer, parsing_err, stream, last, prev, erred, frames, emitted,
          it, it_last, yields, none_seen, called, message, access_last,
          encoder, encoded, codec_in, codec_out>>

----------------------------------------------------------------------------
(* Bounds and constants *)

\* Width of usize in the model (64 on the usual targets).
UsizeBits == 10

UsizeMod == 2 ^ UsizeBits

\* utils::MIN_FIX_MESSAGE_LEN_IN_BYTES
MIN_FIX_MESSAGE_LEN_IN_BYTES == 14

\* utils::FIELD_CHECKSUM_LEN_IN_BYTES
FIELD_CHECKSUM_LEN_IN_BYTES == 7

\* b'='
EQUAL_SIGN == 61

\* b'0'
ASCII_ZERO == 48

\* b'|', the separator of the test decoder
PIPE == 124

\* how many returned frames are recorded in `emitted`
MaxEmitted == 3

\* the separators the decoder is configured with
Separators == {PIPE, 1}

----------------------------------------------------------------------------
(* Small helpers on byte slices *)

\* &data[r] for a range r = <<start, end>>
Slice(d, r) == SubSeq(d, r[1] + 1, r[2])

\* s[lo] + ... + s[hi], by halves
RECURSIVE SumRange(_, _, _)
SumRange(s, lo, hi) ==
    IF lo > hi THEN 0
    ELSE IF lo = hi THEN s[lo]
    ELSE LET mid == (lo + hi) \div 2 IN
         SumRange(s, lo, mid) + SumRange(s, mid + 1, hi)

SumBytes(s) == SumRange(s, 1, Len(s))

\* decimal digits of n, most significant first
RECURSIVE Dec(_)
Dec(n) == IF n < 10 THEN <<ASCII_ZERO + n>>
          ELSE Dec(n \div 10) \o <<ASCII_ZERO + (n % 10)>>

\* three zero-padded decimal digits of a checksum value
Digits3(c) == <<ASCII_ZERO + (c \div 100), ASCII_ZERO + ((c \div 10) % 10),
                ASCII_ZERO + (c % 10)>>

----------------------------------------------------------------------------
(* HeaderInfo *)

HeaderInfo_empty == [i_equal_sign |-> <<0, 0>>, i_sep |-> <<0, 0>>, body_length |-> 0]

start_of_body(info) == info.i_sep[2] + 1

begin_string_range(info) == <<info.i_equal_sign[1] + 1, info.i_sep[1]>>

\* `start + self.body_length` overflows usize
body_range_overflows(info) == start_of_body(info) + info.body_length >= UsizeMod

\* the range as a release build computes it (the sum wraps)
body_range(info) ==
    <<start_of_body(info), (start_of_body(info) + info.body_length) % UsizeMod>>

\* ExactSizeIterator::len of a Range<usize>: 0 when start >= end
RangeLen(r) == IF r[1] < r[2] THEN r[2] - r[1] ELSE 0

\* body_length.wrapping_mul(10).wrapping_add(byte.wrapping_sub(b'0') as usize)
FoldDigit(n, byte) ==
    (((n * 10) % UsizeMod) + ((byte + 256 - ASCII_ZERO) % 256)) % UsizeMod

\* the while loop of HeaderInfo::parse; field_i and i are 0-based
RECURSIVE ParseLoop(_, _, _, _, _)
ParseLoop(d, sep, info, field_i, i) ==
    IF field_i < 2 /\ i < Len(d)
    THEN LET byte == d[i + 1] IN
         IF byte = EQUAL_SIGN
         THEN ParseLoop(d, sep,
                  [info EXCEPT !.i_equal_sign[field_i + 1] = i, !.body_length = 0],
                  field_i, i + 1)
         ELSE IF byte = sep
         THEN ParseLoop(d, sep, [info EXCEPT !.i_sep[field_i + 1] = i],
                  field_i + 1, i + 1)
         ELSE ParseLoop(d, sep,
                  [info EXCEPT !.body_length = FoldDigit(info.body_length, byte)],
                  field_i, i + 1)
    ELSE info

\* the final validity check of HeaderInfo::parse
HeaderValid(info) ==
    /\ info.i_equal_sign[1] # 0
    /\ info.i_equal_sign[2] # 0
    /\ info.i_sep[1] # 0
    /\ info.i_sep[2] # 0

\* HeaderInfo::parse: Ok(info) or Err(Invalid)
HeaderInfo_parse(d, sep) ==
    LET info == ParseLoop(d, sep, HeaderInfo_empty, 0, 0) IN
    IF HeaderValid(info) THEN [ok |-> TRUE, info |-> info]
    ELSE [ok |-> FALSE, info |-> info]

----------------------------------------------------------------------------
(* utils *)

\* the payload must end exactly at data.len() - FIELD_CHECKSUM_LEN_IN_BYTES
verify_body_length(d, start, nominal_body_length) ==
    start + nominal_body_length = Len(d) - FIELD_CHECKSUM_LEN_IN_BYTES

\* CheckSum::compute: sum of the bytes modulo 256
checksum_compute(s) == SumBytes(s) % 256

\* the digits at data.len()-4 .. data.len()-1 must match the sum of the bytes
\* 0 .. data.len()-7 modulo 256
verify_checksum_fn(d) ==
    SubSeq(d, Len(d) - 3, Len(d) - 1) =
        Digits3(checksum_compute(SubSeq(d, 1, Len(d) - FIELD_CHECKSUM_LEN_IN_BYTES)))

----------------------------------------------------------------------------
(* RawDecoder::decode *)

NoRange == <<0, 0>>

Err(e) == [kind |-> "Err", err |-> e, begin_string |-> NoRange, payload |-> NoRange]

Panic == [kind |-> "Panic", err |-> "None", begin_string |-> NoRange, payload |-> NoRange]

Frame(bs, pl) == [kind |-> "Ok", err |-> "None", begin_string |-> bs, payload |-> pl]

NoResult == [kind |-> "None", err |-> "None", begin_string |-> NoRange, payload |-> NoRange]

\* what a call on the buffered decoder returned: kind is "Unit" (clear, parse),
\* "Slice" (supply_buffer, with the range of the buffer handed out), "OkNone",
\* "Ok" (Ok(Some(frame))), "Err" or "Panic"
Returned(op, kind, e, bs, pl, sl) ==
    [op |-> op, kind |-> kind, err |-> e, begin_string |-> bs, payload |-> pl,
     slice |-> sl]

\* decode with the checksum verification left out
decode_SkipsCheckSum(d, sep, verify, checks) ==
    IF Len(d) < MIN_FIX_MESSAGE_LEN_IN_BYTES THEN Err("Length")
    ELSE LET parsed == HeaderInfo_parse(d, sep)
             info == parsed.info IN
         IF ~parsed.ok THEN Err("Invalid")
         ELSE IF checks /\ body_range_overflows(info) THEN Panic
         ELSE IF ~verify_body_length(d, start_of_body(info), RangeLen(body_range(info)))
              THEN Err("Length")
         ELSE Frame(begin_string_range(info), body_range(info))

\* decode with the header parsed before the minimum length is checked
decode_ParsesFirst(d, sep, verify, checks) ==
    LET parsed == HeaderInfo_parse(d, sep)
        info == parsed.info IN
    IF ~parsed.ok THEN Err("Invalid")
    ELSE IF Len(d) < MIN_FIX_MESSAGE_LEN_IN_BYTES THEN Err("Length")
    ELSE IF checks /\ body_range_overflows(info) THEN Panic
    ELSE IF ~verify_body_length(d, start_of_body(info), RangeLen(body_range(info)))
         THEN Err("Length")
    ELSE IF verify /\ ~verify_checksum_fn(d) THEN Err("CheckSum")
    ELSE Frame(begin_string_range(info), body_range(info))

\* RawDecoder::decode; checks = the build panics on arithmetic overflow
decode(d, sep, verify, checks) ==
    IF Len(d) < MIN_FIX_MESSAGE_LEN_IN_BYTES THEN Err("Length")
    ELSE LET parsed == HeaderInfo_parse(d, sep)
             info == parsed.info IN
         IF ~parsed.ok THEN Err("Invalid")
         ELSE IF checks /\ body_range_overflows(info) THEN Panic
         ELSE IF ~verify_body_length(d, start_of_body(info), RangeLen(body_range(info)))
              THEN Err("Length")
         ELSE IF verify /\ ~verify_checksum_fn(d) THEN Err("CheckSum")
         ELSE Frame(begin_string_range(info), body_range(info))

----------------------------------------------------------------------------
(* Inputs of decode: well-formed frames, frames with a wrong declared length *)
(* or checksum, one-byte corruptions and truncations of well-formed frames,  *)
(* and the degenerate inputs of test::edge_cases_dont_cause_panic.           *)

TAG_BEGIN_STRING == <<56>>

TAG_BODY_LENGTH == <<57>>

TAG_CHECK_SUM == <<49, 48>>

\* first-field tags of the inputs: "8" and "7"
FirstTags == {TAG_BEGIN_STRING, <<55>>}

\* BeginString values: "", "?", "F=X", "FIX.4.2"
BeginStrings == {<<>>, <<63>>, <<70, 61, 88>>, <<70, 73, 88, 46, 52, 46, 50>>}

\* payloads: "", "35=?|", "35=D|49=A|"
Payloads(sep) == {<<>>, <<51, 53, 61, 63, sep>>,
                  <<51, 53, 61, 68, sep, 52, 57, 61, 65, sep>>}

\* texts of the BodyLength field for a payload of len bytes: the right value,
\* the value zero-padded, off by one, and values around the wrap of usize
BodyLengthTexts(len) ==
    {Dec(len), <<ASCII_ZERO, ASCII_ZERO>> \o Dec(len), Dec(len + 1),
     Dec(UsizeMod + len), Dec(UsizeMod - 1), Dec(UsizeMod - 2)}
    \cup (IF len > 0 THEN {Dec(len - 1)} ELSE {})

\* everything before the CheckSum field
Head_(tag, bs, bl, payload, sep) ==
    tag \o <<EQUAL_SIGN>> \o bs \o <<sep>> \o TAG_BODY_LENGTH \o <<EQUAL_SIGN>> \o bl
        \o <<sep>> \o payload

WithCheckSum(head, digits, sep) ==
    head \o TAG_CHECK_SUM \o <<EQUAL_SIGN>> \o digits \o <<sep>>

\* the frame with its right checksum
Sealed(head, sep) == WithCheckSum(head, Digits3(checksum_compute(head)), sep)

\* frames with the right BodyLength and CheckSum
GoodFrames(sep) ==
    {Sealed(Head_(TAG_BEGIN_STRING, bs, Dec(Len(p)), p, sep), sep) :
        bs \in BeginStrings, p \in Payloads(sep)}

Templates(sep) ==
    UNION {UNION {UNION {
        LET head == Head_(tag, bs, bl, p, sep) IN
        {Sealed(head, sep), WithCheckSum(head, <<48, 48, 48>>, sep)} :
            bl \in BodyLengthTexts(Len(p))} :
            p \in Payloads(sep)} :
            tag \in FirstTags, bs \in BeginStrings}

\* bytes written over one byte of a frame: '=', the separator, '0', '7'
CorruptBytes(sep) == {EQUAL_SIGN, sep, ASCII_ZERO, 55}

Corruptions(sep) ==
    UNION {{[f EXCEPT ![i] = b] : i \in 1..Len(f), b \in CorruptBytes(sep)} :
        f \in GoodFrames(sep)}

Truncations(sep) ==
    UNION {{SubSeq(f, 1, n) : n \in 0..Len(f)} : f \in GoodFrames(sep)}

\* the inputs of test::edge_cases_dont_cause_panic
EdgeCases == {
    <<56, 61, 124, 57, 61, 48, 124, 49, 48, 61, 50, 50, 53, 124>>,
    <<56, 61, 124, 57, 61, 48, 124, 49, 48, 61, 124>>,
    <<56, 61, 61, 61, 61, 124, 57, 61, 48, 124, 49, 48, 61, 124>>,
    <<124, 124, 124, 57, 61, 48, 124, 49, 48, 61, 124>>,
    <<57, 57, 57, 57, 57, 57, 57, 57, 57, 57, 57, 57, 57>>,
    <<45, 57, 57, 57, 57, 57, 57, 57, 57, 57, 57, 57, 57, 57>>,
    <<61, 61, 61, 61, 61, 61, 61, 61, 61, 61, 61, 61, 61, 61>>,
    <<57, 57, 57, 57, 57, 57, 57, 57, 57, 57, 57, 57, 57, 124>>,
    <<124, 57, 57, 57, 57, 57, 57, 57, 57, 57, 57, 57, 57, 61, 124>>,
    <<124, 57, 57, 57, 61, 57, 57, 57, 57, 57, 57, 57, 57, 57, 57, 57, 57, 57, 57,
      57, 57, 57, 57, 124, 61>>,
    <<56, 61, 63, 124, 57, 61, 53, 124, 49, 48, 61, 48, 56, 50, 124>>}

Inputs(sep) == Templates(sep) \cup Corruptions(sep) \cup Truncations(sep) \cup EdgeCases

\* the frame with the value of its BodyLength field replaced by the decimal
\* digits of n
WithBodyLength(d, sep, n) ==
    LET info == HeaderInfo_parse(d, sep).info IN
    SubSeq(d, 1, info.i_equal_sign[2] + 1) \o Dec(n)
        \o SubSeq(d, info.i_sep[2] + 1, Len(d))

----------------------------------------------------------------------------
(* Specification of the single-shot decoder *)

BufferedIdle ==
    /\ buffer = <<>>
    /\ parsing_err = "None"
    /\ stream = <<>>
    /\ last = Returned("none", "Unit", "None", NoRange, NoRange, NoRange)
    /\ prev = last
    /\ erred = FALSE
    /\ frames = <<>>
    /\ emitted = <<>>

bufferedVars == <<buffer, parsing_err, stream, last, prev, erred, frames, emitted>>

\* Option<G::Entry>
None == [some |-> FALSE, idx |-> 0, entry |-> "None"]
Some(k, e) == [some |-> TRUE, idx |-> k, entry |-> e]

EntriesIdle ==
    /\ it = [group |-> <<>>, i |-> 0, max_i_plus_one |-> 0]
    /\ it_last = [op |-> "none", out |-> None, fused |-> FALSE]
    /\ yields = <<>>
    /\ none_seen = FALSE
    /\ called = {}

entriesVars == <<it, it_last, yields, none_seen, called>>

AccessIdle ==
    /\ message = [raw |-> <<>>, groups |-> <<>>]
    /\ access_last = [op |-> "none"]

accessVars == <<message, access_last>>

EncoderIdle ==
    /\ encoder = [buffer |-> <<>>, body_start_i |-> 0]
    /\ encoded = [begin_string |-> <<>>, msg_type |-> <<>>, appended |-> <<>>,
                  fields |-> 0, reused |-> FALSE]

encoderVars == <<encoder, encoded>>

CodecIdle ==
    /\ codec_in = [op |-> "none"]
    /\ codec_out = [op |-> "none"]

codecVars == <<codec_in, codec_out>>

\* the state of the parts a specification does not exercise
OtherIdle == EntriesIdle /\ AccessIdle /\ EncoderIdle /\ CodecIdle

otherVars == <<entriesVars, accessVars, encoderVars, codecVars>>

Init ==
    /\ separator \in Separators
    /\ verify_checksum \in BOOLEAN
    /\ overflow_checks \in BOOLEAN
    /\ data \in Inputs(separator)
    /\ pc = "input"
    /\ result = NoResult
    /\ BufferedIdle
    /\ OtherIdle

\* decoder.decode(data)
Decode ==
    /\ pc = "input"
    /\ result' = decode(data, separator, verify_checksum, overflow_checks)
    /\ pc' = "decoded"
    /\ UNCHANGED <<data, separator, verify_checksum, overflow_checks, bufferedVars,
                   otherVars>>

\* an accepted frame is decoded again with its declared BodyLength changed by delta
DecodeAltered(delta) ==
    /\ pc = "decoded"
    /\ result.kind = "Ok"
    /\ LET n == HeaderInfo_parse(data, separator).info.body_length IN
       /\ n + delta >= 0
       /\ data' = WithBodyLength(data, separator, n + delta)
    /\ result' = decode(data', separator, verify_checksum, overflow_checks)
    /\ pc' = "altered"
    /\ UNCHANGED <<separator, verify_checksum, overflow_checks, bufferedVars,
                   otherVars>>

Next == Decode \/ DecodeAltered(1) \/ DecodeAltered(-1)

Spec == Init /\ [][Next]_vars

----------------------------------------------------------------------------
(* RawDecoderBuffered *)

\* Vec::resize(n, 0)
Resize(b, n) ==
    IF n <= Len(b) THEN SubSeq(b, 1, n) ELSE b \o [i \in 1..(n - Len(b)) |-> 0]

\* RawDecoderBuffered::raw_frame on the buffer b
raw_frame(b, sep, verify, checks) ==
    IF ~HeaderInfo_parse(b, sep).ok
    THEN Returned("raw_frame", "Err", "Invalid", NoRange, NoRange, NoRange)
    ELSE IF Len(b) = 0 \/ Len(b) = MIN_FIX_MESSAGE_LEN_IN_BYTES
    THEN Returned("raw_frame", "OkNone", "None", NoRange, NoRange, NoRange)
    ELSE LET r == decode(b, sep, verify, checks) IN
         Returned("raw_frame", r.kind, r.err, r.begin_string, r.payload, NoRange)

\* RawDecoderBuffered::supply_buffer: the buffer after the call and the range
\* of it that is returned (panicked: the call did not return)
supply_buffer(b, perr, sep, checks) ==
    LET len == Len(b)
        parsed == HeaderInfo_parse(b, sep)
        info == parsed.info
        sum == start_of_body(info) + RangeLen(body_range(info))
                   + FIELD_CHECKSUM_LEN_IN_BYTES
        total_len == sum % UsizeMod
    IN
    IF perr # "None" THEN [panicked |-> TRUE, buffer |-> b, slice |-> NoRange]
    ELSE IF len < MIN_FIX_MESSAGE_LEN_IN_BYTES
    THEN [panicked |-> FALSE, buffer |-> Resize(b, MIN_FIX_MESSAGE_LEN_IN_BYTES),
          slice |-> <<len, MIN_FIX_MESSAGE_LEN_IN_BYTES>>]
    ELSE IF ~parsed.ok THEN [panicked |-> TRUE, buffer |-> b, slice |-> NoRange]
    ELSE IF checks /\ (body_range_overflows(info) \/ sum >= UsizeMod)
    THEN [panicked |-> TRUE, buffer |-> b, slice |-> NoRange]
    ELSE IF len > total_len
    THEN [panicked |-> TRUE, buffer |-> Resize(b, total_len), slice |-> NoRange]
    ELSE [panicked |-> FALSE, buffer |-> Resize(b, total_len),
          slice |-> <<len, total_len>>]

\* frames the caller streams: well-formed ones, one with a zero-padded
\* BodyLength, one with a wrong checksum, one whose BodyLength wraps usize
StreamFrames(sep) ==
    GoodFrames(sep) \cup
    {Sealed(Head_(TAG_BEGIN_STRING, <<70, 73, 88, 46, 52, 46, 50>>,
                  <<ASCII_ZERO, ASCII_ZERO, 53>>, <<51, 53, 61, 63, sep>>, sep), sep),
     WithCheckSum(Head_(TAG_BEGIN_STRING, <<63>>, <<53>>, <<51, 53, 61, 63, sep>>, sep),
                  <<48, 48, 48>>, sep),
     Sealed(Head_(TAG_BEGIN_STRING, <<63>>, Dec(UsizeMod - 1), <<>>, sep), sep),
     <<61, 61, 61, 61, 61, 61, 61, 61, 61, 61, 61, 61, 61, 61>>}

\* frames that are streamed back to back
PairedFrames(sep) ==
    {Sealed(Head_(TAG_BEGIN_STRING, bs, Dec(Len(p)), p, sep), sep) :
        bs \in {<<>>, <<63>>}, p \in {<<>>, <<51, 53, 61, 63, sep>>}}

Streams(sep) ==
    StreamFrames(sep) \cup {f \o g : f \in PairedFrames(sep), g \in PairedFrames(sep)}

\* RawDecoder::buffered(): an empty buffer and no parsing error
InitBuffered ==
    /\ separator \in Separators
    /\ verify_checksum \in BOOLEAN
    /\ overflow_checks \in BOOLEAN
    /\ data = <<>>
    /\ result = NoResult
    /\ pc = "buffered"
    /\ buffer = <<>>
    /\ parsing_err = "None"
    /\ stream \in Streams(separator)
    /\ last = Returned("buffered", "Unit", "None", NoRange, NoRange, NoRange)
    /\ prev = last
    /\ erred = FALSE
    /\ frames = <<>>
    /\ emitted = <<>>
    /\ OtherIdle

\* what no RawDecoderBuffered call changes
Config == <<data, separator, verify_checksum, overflow_checks, result, frames,
            otherVars>>

\* a clear() that forgets parsing_err.take()
clear_KeepsError(b, perr) == [buffer |-> <<>>, parsing_err |-> perr]

\* RawDecoderBuffered::clear: the buffer and the stored error after the call
clear(b, perr) == [buffer |-> <<>>, parsing_err |-> "None"]

\* decoder.clear(); err is the error that parsing_err.take() takes out
Clear ==
    /\ pc = "buffered"
    /\ buffer' = clear(buffer, parsing_err).buffer
    /\ parsing_err' = clear(buffer, parsing_err).parsing_err
    /\ last' = Returned("clear", "Unit", parsing_err, NoRange, NoRange, NoRange)
    /\ prev' = last
    /\ erred' = FALSE
    /\ UNCHANGED <<Config, pc, stream, emitted>>

\* decoder.supply_buffer()
SupplyBuffer ==
    /\ pc = "buffered"
    /\ LET r == supply_buffer(buffer, parsing_err, separator, overflow_checks) IN
       /\ buffer' = r.buffer
       /\ pc' = IF r.panicked THEN "panicked" ELSE "filling"
       /\ last' = Returned("supply_buffer", IF r.panicked THEN "Panic" ELSE "Slice",
                           "None", NoRange, NoRange, r.slice)
    /\ prev' = last
    /\ UNCHANGED <<Config, parsing_err, stream, erred, emitted>>

\* the caller fills the whole slice it was given with the next bytes of the stream
Fill ==
    /\ pc = "filling"
    /\ LET n == last.slice[2] - last.slice[1] IN
       /\ Len(stream) >= n
       /\ buffer' = SubSeq(buffer, 1, last.slice[1]) \o SubSeq(stream, 1, n)
       /\ stream' = SubSeq(stream, n + 1, Len(stream))
    /\ pc' = "buffered"
    /\ UNCHANGED <<Config, parsing_err, last, prev, erred, emitted>>

\* decoder.parse()
Parse ==
    /\ pc = "buffered"
    /\ parsing_err' = IF HeaderInfo_parse(buffer, separator).ok THEN parsing_err
                      ELSE "Invalid"
    /\ last' = Returned("parse", "Unit", "None", NoRange, NoRange, NoRange)
    /\ prev' = last
    /\ UNCHANGED <<Config, pc, buffer, stream, erred, emitted>>

\* decoder.raw_frame()
RawFrame ==
    /\ pc = "buffered"
    /\ last' = raw_frame(buffer, separator, verify_checksum, overflow_checks)
    /\ prev' = last
    /\ erred' = (erred \/ last'.kind = "Err")
    /\ emitted' = IF last'.kind = "Ok" /\ Len(emitted) < MaxEmitted
                  THEN Append(emitted, buffer) ELSE emitted
    /\ UNCHANGED <<Config, pc, buffer, parsing_err, stream>>

NextBuffered == Clear \/ SupplyBuffer \/ Fill \/ Parse \/ RawFrame

SpecBuffered == InitBuffered /\ [][NextBuffered]_vars

----------------------------------------------------------------------------
(* The streaming loop of test::new_buffered_decoder: the caller takes a slice *)
(* from supply_buffer, fills it with the next bytes of the stream and calls   *)
(* raw_frame, over and over.                                                  *)

RECURSIVE Concat(_)
Concat(fs) == IF fs = <<>> THEN <<>> ELSE Head(fs) \o Concat(Tail(fs))

\* one or two well-formed frames
FrameLists(sep) ==
    {<<f>> : f \in GoodFrames(sep)}
        \cup {<<f, g>> : f \in PairedFrames(sep), g \in PairedFrames(sep)}

InitStream ==
    /\ separator \in Separators
    /\ verify_checksum \in BOOLEAN
    /\ overflow_checks \in BOOLEAN
    /\ data = <<>>
    /\ result = NoResult
    /\ pc = "buffered"
    /\ buffer = <<>>
    /\ parsing_err = "None"
    /\ frames \in FrameLists(separator)
    /\ stream = Concat(frames)
    /\ last = Returned("buffered", "Unit", "None", NoRange, NoRange, NoRange)
    /\ prev = last
    /\ erred = FALSE
    /\ emitted = <<>>
    /\ OtherIdle

\* let buf = decoder.supply_buffer(); the loop unwraps raw_frame's result, so
\* it goes on only after an Ok
StreamSupply ==
    /\ last.op \in {"buffered", "raw_frame"}
    /\ last.kind \in {"Unit", "OkNone", "Ok"}
    /\ SupplyBuffer

\* buf.clone_from_slice(&stream[i..i + buf.len()])
StreamFill == Fill

\* frame = decoder.raw_frame().unwrap()
StreamRawFrame ==
    /\ last.op = "supply_buffer"
    /\ RawFrame

NextStream == StreamSupply \/ StreamFill \/ StreamRawFrame

SpecStream == InitStream /\ [][NextStream]_vars /\ WF_vars(NextStream)

----------------------------------------------------------------------------
(* RepeatingGroup::entries and the Entries iterator of tagvalue/field_access.rs. *)
(* A group is the sequence of its entries; entry(i) is its (i+1)-th element.  *)

\* largest group iterated over
MaxGroupLen == 3

EntryValues == {"A", "B"}

RECURSIVE SeqsUpTo(_, _)
SeqsUpTo(S, n) ==
    IF n = 0 THEN {<<>>}
    ELSE LET shorter == SeqsUpTo(S, n - 1) IN
         shorter \cup {Append(q, x) : q \in {r \in shorter : Len(r) = n - 1}, x \in S}

Groups == SeqsUpTo(EntryValues, MaxGroupLen)

\* RepeatingGroup::entry
entry(g, k) == g[k + 1]

\* an entries() whose iterator starts behind the first entry
entries_FromOne(g) ==
    [group |-> g, i |-> IF Len(g) > 0 THEN 1 ELSE 0, max_i_plus_one |-> Len(g)]

\* RepeatingGroup::entries
entries(g) == [group |-> g, i |-> 0, max_i_plus_one |-> Len(g)]

\* a next() that starts over once it is exhausted
next_Rewinds(e) ==
    IF e.i = e.max_i_plus_one
    THEN [it |-> [e EXCEPT !.i = 0], out |-> None]
    ELSE [it |-> [e EXCEPT !.i = e.i + 1], out |-> Some(e.i, entry(e.group, e.i))]

\* a next() that only stops at the end of the group
next_IgnoresBack(e) ==
    IF e.i = Len(e.group)
    THEN [it |-> e, out |-> None]
    ELSE [it |-> [e EXCEPT !.i = e.i + 1], out |-> Some(e.i, entry(e.group, e.i))]

\* Entries::next: the iterator after the call and the Option it returns
next(e) ==
    IF e.i = e.max_i_plus_one
    THEN [it |-> e, out |-> None]
    ELSE [it |-> [e EXCEPT !.i = e.i + 1], out |-> Some(e.i, entry(e.group, e.i))]

\* a next_back() that only stops at the front of the group
next_back_IgnoresFront(e) ==
    IF e.max_i_plus_one = 0
    THEN [it |-> e, out |-> None]
    ELSE LET m == e.max_i_plus_one - 1 IN
         [it |-> [e EXCEPT !.max_i_plus_one = m], out |-> Some(m, entry(e.group, m))]

\* Entries::next_back
next_back(e) ==
    IF e.i = e.max_i_plus_one
    THEN [it |-> e, out |-> None]
    ELSE LET m == e.max_i_plus_one - 1 IN
         [it |-> [e EXCEPT !.max_i_plus_one = m], out |-> Some(m, entry(e.group, m))]

\* Entries::size_hint: n of (n, Some(n))
size_hint(e) == Len(e.group) - e.i

\* ExactSizeIterator::len for Entries
Entries_len(e) == Len(e.group)

\* let it = group.entries()
InitEntries ==
    /\ \E g \in Groups : it = entries(g)
    /\ it_last = [op |-> "entries", out |-> None, fused |-> FALSE]
    /\ yields = <<>>
    /\ none_seen = FALSE
    /\ called = {}
    /\ separator = PIPE
    /\ verify_checksum = TRUE
    /\ overflow_checks = TRUE
    /\ data = <<>>
    /\ pc = "entries"
    /\ result = NoResult
    /\ BufferedIdle
    /\ AccessIdle
    /\ EncoderIdle
    /\ CodecIdle

Called(op, r) ==
    /\ it' = r.it
    /\ it_last' = [op |-> op, out |-> r.out, fused |-> none_seen]
    /\ yields' = IF r.out.some
                 THEN Append(yields, [op |-> op, idx |-> r.out.idx, entry |-> r.out.entry])
                 ELSE yields
    /\ none_seen' = (none_seen \/ ~r.out.some)
    /\ called' = called \cup {op}
    /\ UNCHANGED <<data, separator, verify_checksum, overflow_checks, pc, result,
                   bufferedVars, accessVars, encoderVars, codecVars>>

\* it.next()
NextCall == pc = "entries" /\ Called("next", next(it))

\* it.next_back()
NextBackCall == pc = "entries" /\ Called("next_back", next_back(it))

NextEntries == NextCall \/ NextBackCall

SpecEntries == InitEntries /\ [][NextEntries]_vars

----------------------------------------------------------------------------
(* FieldAccess of tagvalue/field_access.rs: fv, fvl and group, over a message *)
(* that answers fv_raw and group_opt.  The field type V is bool, whose strict *)
(* and lossy deserializers differ.                                            *)

\* Result<V, V::Error> of a deserializer
OkV(v) == [ok |-> TRUE, value |-> v, err |-> "None"]
ErrV(e) == [ok |-> FALSE, value |-> FALSE, err |-> e]

\* <bool as FixFieldValue>::deserialize
bool_deserialize(d) ==
    IF Len(d) # 1 THEN ErrV("WrongLength")
    ELSE IF d[1] = 89 THEN OkV(TRUE)
    ELSE IF d[1] = 78 THEN OkV(FALSE)
    ELSE ErrV("InvalidCharacter")

\* <bool as FixFieldValue>::deserialize_lossy
bool_deserialize_lossy(d) ==
    IF Len(d) # 1 THEN ErrV("WrongLength") ELSE OkV(d[1] = 89)

\* Option<&[u8]>
NoRaw == [some |-> FALSE, raw |-> <<>>]
SomeRaw(b) == [some |-> TRUE, raw |-> b]

\* Option<Result<Group, usize::Error>>
NoGroup == [some |-> FALSE, ok |-> FALSE, group |-> <<>>, err |-> "None"]
SomeGroup(g) == [some |-> TRUE, ok |-> TRUE, group |-> g, err |-> "None"]
SomeGroupErr(e) == [some |-> TRUE, ok |-> FALSE, group |-> <<>>, err |-> e]

\* Result<T, Option<E>>
Found(v) == [kind |-> "Ok", value |-> v, err |-> [some |-> FALSE, e |-> "None"]]
ErrNone(v0) == [kind |-> "Err", value |-> v0, err |-> [some |-> FALSE, e |-> "None"]]
ErrSome(v0, e) == [kind |-> "Err", value |-> v0, err |-> [some |-> TRUE, e |-> e]]

\* the tags a message is asked for
Tags == {35, 59}

\* field contents: empty, "Y", "N", "X", "YY"
RawValues == {<<>>, <<89>>, <<78>>, <<88>>, <<89, 89>>}

GroupOpts == {NoGroup, SomeGroupErr("Int"), SomeGroup(<<>>), SomeGroup(<<"A">>)}

Messages ==
    [raw : [Tags -> {NoRaw} \cup {SomeRaw(b) : b \in RawValues}],
     groups : [Tags -> GroupOpts]]

\* FieldAccess::fv_raw of the message
fv_raw(m, tag) == m.raw[tag]

\* FieldAccess::group_opt of the message
group_opt(m, tag) == m.groups[tag]

\* FieldAccess::fv_opt: Option<Result<V, V::Error>>
fv_opt(m, tag) ==
    LET raw == fv_raw(m, tag) IN
    [some |-> raw.some, res |-> bool_deserialize(raw.raw)]

\* FieldAccess::fvl_opt
fvl_opt(m, tag) ==
    LET raw == fv_raw(m, tag) IN
    [some |-> raw.some, res |-> bool_deserialize_lossy(raw.raw)]

\* an fv that reports a missing field as a deserialization error
fv_AbsentIsError(m, tag) ==
    LET o == fv_opt(m, tag) IN
    IF o.some /\ o.res.ok THEN Found(o.res.value)
    ELSE IF o.some THEN ErrSome(FALSE, o.res.err)
    ELSE ErrSome(FALSE, "WrongLength")

\* FieldAccess::fv
fv(m, tag) ==
    LET o == fv_opt(m, tag) IN
    IF o.some /\ o.res.ok THEN Found(o.res.value)
    ELSE IF o.some THEN ErrSome(FALSE, o.res.err)
    ELSE ErrNone(FALSE)

\* FieldAccess::fvl
fvl(m, tag) ==
    LET o == fvl_opt(m, tag) IN
    IF o.some /\ o.res.ok THEN Found(o.res.value)
    ELSE IF o.some THEN ErrSome(FALSE, o.res.err)
    ELSE ErrNone(FALSE)

\* FieldAccess::group
group(m, tag) ==
    LET o == group_opt(m, tag) IN
    IF o.some /\ o.ok THEN Found(o.group)
    ELSE IF o.some THEN ErrSome(<<>>, o.err)
    ELSE ErrNone(<<>>)

InitAccess ==
    /\ message \in Messages
    /\ access_last = [op |-> "none"]
    /\ separator = PIPE
    /\ verify_checksum = TRUE
    /\ overflow_checks = TRUE
    /\ data = <<>>
    /\ pc = "access"
    /\ result = NoResult
    /\ BufferedIdle
    /\ EntriesIdle
    /\ EncoderIdle
    /\ CodecIdle

AccessUnchanged ==
    UNCHANGED <<data, separator, verify_checksum, overflow_checks, pc, result,
                bufferedVars, entriesVars, encoderVars, codecVars, message>>

\* message.fv::<bool>(&tag)
FvCall ==
    /\ pc = "access"
    /\ \E tag \in Tags :
           access_last' = [op |-> "fv", tag |-> tag, out |-> fv(message, tag)]
    /\ AccessUnchanged

\* message.fvl::<bool>(&tag)
FvlCall ==
    /\ pc = "access"
    /\ \E tag \in Tags :
           access_last' = [op |-> "fvl", tag |-> tag, out |-> fvl(message, tag)]
    /\ AccessUnchanged

\* message.group(&tag)
GroupCall ==
    /\ pc = "access"
    /\ \E tag \in Tags :
           access_last' = [op |-> "group", tag |-> tag, out |-> group(message, tag)]
    /\ AccessUnchanged

NextAccess == FvCall \/ FvlCall \/ GroupCall

SpecAccess == InitAccess /\ [][NextAccess]_vars

----------------------------------------------------------------------------
(* Encoder and EncoderHandle of tagvalue/encoder.rs.  An encoder is the     *)
(* record of Encoder::buffer and EncoderHandle::body_start_i.               *)

\* fixt11 tags
BEGIN_STRING == 8
BODY_LENGTH == 9
CHECK_SUM == 10
MSG_TYPE == 35

\* most fields appended to one message
MaxFields == 2

\* length of the long field value
LongLen == 250

\* `as u8`
AsU8(n) == n % 256

\* to_digit
to_digit(byte) == byte + ASCII_ZERO

\* EncoderHandle::set_any: the tag in decimal, '=', the value and the separator
\* are appended to the buffer
set_any(e, tag, value, sep) ==
    [e EXCEPT !.buffer = @ \o Dec(tag) \o <<EQUAL_SIGN>> \o value \o <<sep>>]

\* EncoderHandle::raw
raw(e, bytes) == [e EXCEPT !.buffer = @ \o bytes]

\* a start_message without self.buffer.clear()
start_message_KeepsBuffer(e, begin_string, msg_type, sep) ==
    LET with_begin == set_any(e, BEGIN_STRING, begin_string, sep)
        with_length == set_any(with_begin, BODY_LENGTH,
                               [k \in 1..6 |-> ASCII_ZERO], sep)
        state == [with_length EXCEPT !.body_start_i = Len(with_length.buffer)]
    IN set_any(state, MSG_TYPE, msg_type, sep)

\* Encoder::start_message on the encoder e
start_message(e, begin_string, msg_type, sep) ==
    LET cleared == [e EXCEPT !.buffer = <<>>, !.body_start_i = 0]
        with_begin == set_any(cleared, BEGIN_STRING, begin_string, sep)
        with_length == set_any(with_begin, BODY_LENGTH,
                               [k \in 1..6 |-> ASCII_ZERO], sep)
        state == [with_length EXCEPT !.body_start_i = Len(with_length.buffer)]
    IN set_any(state, MSG_TYPE, msg_type, sep)

\* EncoderHandle::body_length_writable_range
body_length_writable_range(e) == <<e.body_start_i - 7, e.body_start_i - 1>>

\* EncoderHandle::body_length
body_length(e) == Len(e.buffer) - e.body_start_i

\* EncoderHandle::write_body_length: slice[j] = to_digit((n / 10^(5-j)) as u8 % 10)
write_body_length(e) ==
    LET n == body_length(e)
        r == body_length_writable_range(e)
    IN [e EXCEPT !.buffer =
           [k \in 1..Len(e.buffer) |->
               IF k > r[1] /\ k <= r[2]
               THEN to_digit(AsU8(n \div (10 ^ (r[2] - k))) % 10)
               ELSE e.buffer[k]]]

\* EncoderHandle::write_checksum
write_checksum(e, sep) ==
    set_any(e, CHECK_SUM, Digits3(checksum_compute(e.buffer)), sep)

\* a wrap that appends the checksum before it patches the body length
wrap_ChecksumFirst(e, sep) ==
    LET summed == write_checksum(e, sep)
        patched == write_body_length([e EXCEPT !.buffer = summed.buffer]) IN
    [patched EXCEPT !.buffer =
        [k \in 1..Len(@) |->
            IF k > e.body_start_i - 7 /\ k <= e.body_start_i - 1
            THEN write_body_length(e).buffer[k] ELSE @[k]]]

\* EncoderHandle::wrap
wrap(e, sep) == write_checksum(write_body_length(e), sep)

\* begin strings and message types given to start_message: "FIX.4.4", "?"
\* and "0", "D"
EncoderBeginStrings == {<<70, 73, 88, 46, 52, 46, 52>>, <<63>>}
MsgTypes == {<<48>>, <<68>>}

\* tags and values of the appended fields: "A", "" and LongLen times "x"
FieldTags == {49, 56}
FieldValues == {<<65>>, <<>>, [k \in 1..LongLen |-> 120]}

\* fields the caller has serialized itself: "34=12<sep>", "52=<sep>"
RawFields(sep) == {<<51, 52, EQUAL_SIGN, 49, 50, sep>>, <<53, 50, EQUAL_SIGN, sep>>}

\* Encoder::from_buffer(Vec::new())
InitEncoder ==
    /\ separator \in Separators
    /\ verify_checksum = TRUE
    /\ overflow_checks \in BOOLEAN
    /\ data = <<>>
    /\ pc = "encoder"
    /\ result = NoResult
    /\ BufferedIdle
    /\ EntriesIdle
    /\ AccessIdle
    /\ EncoderIdle
    /\ CodecIdle

EncoderUnchanged ==
    UNCHANGED <<data, separator, verify_checksum, overflow_checks, result,
                bufferedVars, entriesVars, accessVars, codecVars>>

\* let handle = encoder.start_message(begin_string, msg_type)
StartMessage ==
    /\ pc \in {"encoder", "handle", "wrapped"}
    /\ \E bs \in EncoderBeginStrings, mt \in MsgTypes :
           /\ encoder' = start_message(encoder, bs, mt, separator)
           /\ encoded' = [begin_string |-> bs, msg_type |-> mt, appended |-> <<>>,
                          fields |-> 0, reused |-> encoder.buffer # <<>>]
    /\ pc' = "handle"
    /\ EncoderUnchanged

\* handle.set_any(tag, value)
SetAny ==
    /\ pc = "handle"
    /\ encoded.fields < MaxFields
    /\ \E tag \in FieldTags, value \in FieldValues :
           /\ encoder' = set_any(encoder, tag, value, separator)
           /\ encoded' = [encoded EXCEPT
                              !.appended = @ \o Dec(tag) \o <<EQUAL_SIGN>> \o value
                                             \o <<separator>>,
                              !.fields = @ + 1]
    /\ pc' = pc
    /\ EncoderUnchanged

\* handle.raw(bytes)
Raw ==
    /\ pc = "handle"
    /\ encoded.fields < MaxFields
    /\ \E bytes \in RawFields(separator) :
           /\ encoder' = raw(encoder, bytes)
           /\ encoded' = [encoded EXCEPT !.appended = @ \o bytes, !.fields = @ + 1]
    /\ pc' = pc
    /\ EncoderUnchanged

\* handle.wrap()
Wrap ==
    /\ pc = "handle"
    /\ encoder' = wrap(encoder, separator)
    /\ pc' = "wrapped"
    /\ UNCHANGED encoded
    /\ EncoderUnchanged

NextEncoder == StartMessage \/ SetAny \/ Raw \/ Wrap

SpecEncoder == InitEncoder /\ [][NextEncoder]_vars

----------------------------------------------------------------------------
(* FixFieldValue of tagvalue/datatypes/mod.rs: the field types' serializers  *)
(* and strict and lossy deserializers.  An integer type of 16, 32 or 64 bits *)
(* is kept at IntBits, IntBits + 1 or IntBits + 2 bits, each wide enough for *)
(* a byte.                                                                   *)

\* width of the 16-bit integer type in the model
IntBits == 9

\* longest input handed to a deserializer
MaxDataLen == 4

\* N of &[u8; N]
ArrayLen == 2

IntTypes == {"TagU16", "u32", "i32", "u64", "i64", "usize"}

Types == {"bool", "u8", "bytes", "array"} \cup IntTypes

Signed(ty) == ty \in {"i32", "i64"}

Bits(ty) ==
    IF ty = "TagU16" THEN IntBits
    ELSE IF ty \in {"u32", "i32"} THEN IntBits + 1
    ELSE IntBits + 2

\* T::MIN and T::MAX
MinOf(ty) == IF Signed(ty) THEN -(2 ^ (Bits(ty) - 1)) ELSE 0
MaxOf(ty) == IF Signed(ty) THEN 2 ^ (Bits(ty) - 1) - 1 ELSE 2 ^ Bits(ty) - 1

\* two's-complement wrap of x into the range of ty
Wrap_(ty, x) ==
    IF Signed(ty)
    THEN ((x + 2 ^ (Bits(ty) - 1)) % (2 ^ Bits(ty))) - 2 ^ (Bits(ty) - 1)
    ELSE x % (2 ^ Bits(ty))

InRange(ty, x) == MinOf(ty) <= x /\ x <= MaxOf(ty)

\* what a call gives: it returns res, or it panics
Returns(r) == [panicked |-> FALSE, res |-> r]
Panics == [panicked |-> TRUE, res |-> ErrV("None")]

\* std::str::from_utf8(data).is_ok(), for one- and two-byte sequences (the
\* inputs hold no lead byte of a longer one)
RECURSIVE Utf8Valid(_)
Utf8Valid(d) ==
    IF d = <<>> THEN TRUE
    ELSE IF d[1] < 128 THEN Utf8Valid(Tail(d))
    ELSE IF d[1] \in 194..223 /\ Len(d) >= 2 /\ d[2] \in 128..191
    THEN Utf8Valid(Tail(Tail(d)))
    ELSE FALSE

AllDigits(d) == \A k \in 1..Len(d) : d[k] \in ASCII_ZERO..(ASCII_ZERO + 9)

\* the number a run of ASCII digits denotes
RECURSIVE DecValue(_)
DecValue(d) ==
    IF d = <<>> THEN 0
    ELSE 10 * DecValue(SubSeq(d, 1, Len(d) - 1)) + (d[Len(d)] - ASCII_ZERO)

\* str::parse::<T>() for an integer type: an optional '+' (or '-' for a signed
\* type), then at least one digit, and the value must fit T
str_parse(ty, d) ==
    LET has_sign == Len(d) > 0 /\ (d[1] = 43 \/ (Signed(ty) /\ d[1] = 45))
        digits == IF has_sign THEN Tail(d) ELSE d
        v == IF has_sign /\ d[1] = 45 THEN -DecValue(digits) ELSE DecValue(digits)
    IN
    IF digits = <<>> \/ ~AllDigits(digits) THEN ErrV("Other")
    ELSE IF ~InRange(ty, v) THEN ErrV("Other")
    ELSE IF ty = "TagU16" /\ v = 0 THEN ErrV("Other")
    ELSE OkV(v)

\* deserialize of the integer types: from_utf8, then parse
int_deserialize(ty, d) ==
    IF ~Utf8Valid(d) THEN Returns(ErrV("InvalidUtf8")) ELSE Returns(str_parse(ty, d))

\* the loop of the lossy integer deserializers over data[k..], 1-based k, from
\* the accumulator n: n = n * 10 + (byte - b'0').  u32 and TagU16 use
\* wrapping_mul / wrapping_add / wrapping_sub; the other types use `*`, `+`
\* and `-`, which panic on overflow when overflow checks are on and wrap when
\* they are off.
RECURSIVE LossyFold(_, _, _, _, _)
LossyFold(ty, d, k, n, checks) ==
    IF k > Len(d) THEN [panicked |-> FALSE, n |-> n]
    ELSE LET wrapping == ty \in {"u32", "TagU16"}
             digit == d[k] - ASCII_ZERO
             times == n * 10
             sum == Wrap_(ty, times) + Wrap_(ty, digit)
             overflows == \/ ~InRange(ty, digit)
                          \/ ~InRange(ty, times)
                          \/ ~InRange(ty, sum)
         IN IF ~wrapping /\ checks /\ overflows
            THEN [panicked |-> TRUE, n |-> n]
            ELSE LossyFold(ty, d, k + 1, Wrap_(ty, sum), checks)

\* deserialize_lossy of u32, u64 and usize
unsigned_deserialize_lossy(ty, d, checks) ==
    LET f == LossyFold(ty, d, 1, 0, checks) IN
    IF f.panicked THEN Panics ELSE Returns(OkV(f.n))

\* deserialize_lossy of TagU16: TagU16::new(n).ok_or(Other)
TagU16_deserialize_lossy(d) ==
    LET f == LossyFold("TagU16", d, 1, 0, FALSE) IN
    IF f.n = 0 THEN Returns(ErrV("Other")) ELSE Returns(OkV(f.n))

\* deserialize_lossy of i32 and i64: the loop, then the sign read from data[0]
signed_deserialize_lossy(ty, d, checks) ==
    LET f == LossyFold(ty, d, 1, 0, checks) IN
    IF f.panicked \/ d = <<>> THEN Panics
    ELSE LET sign == IF d[1] = 45 THEN -1 ELSE 1
             product == f.n * sign
         IN IF checks /\ ~InRange(ty, product) THEN Panics
            ELSE Returns(OkV(Wrap_(ty, product)))

\* <u8 as FixFieldValue>::deserialize: Ok(data[0])
u8_deserialize(d) == IF d = <<>> THEN Panics ELSE Returns(OkV(d[1]))

\* <&[u8] as FixFieldValue>::deserialize
bytes_deserialize(d) == Returns(OkV(d))

\* <&[u8; N] as FixFieldValue>::deserialize: data.try_into()
array_deserialize(d) ==
    IF Len(d) = ArrayLen THEN Returns(OkV(d)) ELSE Returns(ErrV("()"))

\* T::deserialize(data)
deserialize(ty, d, checks) ==
    CASE ty = "bool" -> Returns(bool_deserialize(d))
      [] ty = "u8" -> u8_deserialize(d)
      [] ty = "bytes" -> bytes_deserialize(d)
      [] ty = "array" -> array_deserialize(d)
      [] OTHER -> int_deserialize(ty, d)

\* T::deserialize_lossy(data); u8, &[u8] and &[u8; N] keep the trait's default,
\* which calls deserialize
deserialize_lossy(ty, d, checks) ==
    CASE ty = "bool" -> Returns(bool_deserialize_lossy(d))
      [] ty \in {"u8", "bytes", "array"} -> deserialize(ty, d, checks)
      [] ty = "TagU16" -> TagU16_deserialize_lossy(d)
      [] ty \in {"u32", "u64", "usize"} -> unsigned_deserialize_lossy(ty, d, checks)
      [] OTHER -> signed_deserialize_lossy(ty, d, checks)

\* input bytes: '0', '9', '-', '+', 'Y', 'N' and 0xC8
DataBytes == {48, 57, 45, 43, 89, 78, 200}

DataInputs == SeqsUpTo(DataBytes, MaxDataLen)

\* a field type and the bytes of a field are picked
InitDeserialize ==
    /\ codec_in \in [op : {"deserialize"}, ty : Types, data : DataInputs]
    /\ codec_out = [op |-> "none"]
    /\ overflow_checks \in BOOLEAN
    /\ separator = PIPE
    /\ verify_checksum = TRUE
    /\ data = <<>>
    /\ pc = "codec"
    /\ result = NoResult
    /\ BufferedIdle
    /\ EntriesIdle
    /\ AccessIdle
    /\ EncoderIdle

CodecUnchanged ==
    UNCHANGED <<data, separator, verify_checksum, overflow_checks, pc, result,
                bufferedVars, entriesVars, accessVars, encoderVars, codec_in>>

\* T::deserialize(data)
Deserialize ==
    /\ pc = "codec"
    /\ codec_in.op = "deserialize"
    /\ codec_out' = [op |-> "deserialize",
                     out |-> deserialize(codec_in.ty, codec_in.data, overflow_checks)]
    /\ CodecUnchanged

\* T::deserialize_lossy(data)
DeserializeLossy ==
    /\ pc = "codec"
    /\ codec_in.op = "deserialize"
    /\ codec_out' = [op |-> "deserialize_lossy",
                     out |-> deserialize_lossy(codec_in.ty, codec_in.data,
                                               overflow_checks)]
    /\ CodecUnchanged

NextDeserialize == Deserialize \/ DeserializeLossy

SpecDeserialize == InitDeserialize /\ [][NextDeserialize]_vars

----------------------------------------------------------------------------
(* The serializers.  A call gives the buffer after it and the usize it       *)
(* returns.                                                                  *)

\* largest Padding::len
MaxPadLen == 3

Wrote(b, n) == [buffer |-> b, n |-> n]

\* an i32::to_string that leaves out the sign
to_string_NoSign(v) == IF v < 0 THEN Dec(-v) ELSE Dec(v)

\* to_string() of an integer
to_string(v) == IF v < 0 THEN <<45>> \o Dec(-v) ELSE Dec(v)

\* serialize of the integer types: the bytes of to_string(), and their number
int_serialize(v, b) == Wrote(b \o to_string(v), Len(to_string(v)))

\* <bool as FixFieldValue>::serialize
bool_serialize(v, b) == Wrote(b \o <<IF v THEN 89 ELSE 78>>, 1)

\* <u8 as FixFieldValue>::serialize
u8_serialize(v, b) == Wrote(b \o <<v>>, 1)

\* serialize of &[u8] and of &[u8; N]
bytes_serialize(v, b) == Wrote(b \o v, Len(v))

\* <u32 as FixFieldValue>::serialize_with: settings.len times the byte
\* ((self / 10) + b'0') as u8, then serialize
u32_serialize_with(v, b, settings) ==
    int_serialize(v, b \o [k \in 1..settings.len |-> AsU8((v \div 10) + ASCII_ZERO)])

\* Padding::zeros
Padding_zeros(n) == [len |-> n, byte |-> ASCII_ZERO]

\* <chrono::DateTime<Utc> as FixFieldValue>::serialize_with; settings is the
\* bool of WithMilliseconds
DateTime_serialize_with(v, b, settings) ==
    LET year == u32_serialize_with(v.year, b, Padding_zeros(4)).buffer
        month == u32_serialize_with(v.month, year, Padding_zeros(2)).buffer
        day == u32_serialize_with(v.day, month, Padding_zeros(2)).buffer
        hour == u32_serialize_with(v.hour, day \o <<45>>, Padding_zeros(2)).buffer
        minute == u32_serialize_with(v.minute, hour \o <<58>>, Padding_zeros(2)).buffer
        second == u32_serialize_with(v.second, minute \o <<58>>, Padding_zeros(2)).buffer
    IN IF settings
       THEN Wrote(u32_serialize_with(v.nanosecond \div 10000000, second \o <<46>>,
                                     Padding_zeros(3)).buffer, 21)
       ELSE Wrote(second, 17)

\* T::serialize(&self, buffer)
serialize(ty, v, b) ==
    CASE ty = "bool" -> bool_serialize(v, b)
      [] ty = "u8" -> u8_serialize(v, b)
      [] ty \in {"bytes", "array"} -> bytes_serialize(v, b)
      [] ty = "DateTime" -> DateTime_serialize_with(v, b, TRUE)
      [] OTHER -> int_serialize(v, b)

\* T::serialize_with(&self, buffer, settings); the trait's default calls
\* serialize
serialize_with(ty, v, b, settings) ==
    CASE ty = "u32" -> u32_serialize_with(v, b, settings)
      [] ty = "DateTime" -> DateTime_serialize_with(v, b, settings)
      [] OTHER -> serialize(ty, v, b)

\* the values that are serialized
Values(ty) ==
    CASE ty = "bool" -> BOOLEAN
      [] ty = "u8" -> {0, 48, 65, 255}
      [] ty = "bytes" -> {<<>>, <<32>>, <<102, 111, 111>>}
      [] ty = "array" -> {<<73, 84>>, <<0, 255>>}
      [] ty = "DateTime" ->
            {[year |-> 2013, month |-> 4, day |-> 22, hour |-> 12, minute |-> 30,
              second |-> 0, nanosecond |-> ns] : ns \in {0, 123000000}}
      [] OTHER -> {v \in {MinOf(ty), MinOf(ty) + 1, -10, -1, 0, 1, 9, 10, 42,
                          MaxOf(ty)} :
                      InRange(ty, v) /\ (ty = "TagU16" => v # 0)}

\* Self::SerializeSettings
Settings(ty) ==
    CASE ty = "u32" -> [len : 0..MaxPadLen, byte : {ASCII_ZERO, 32}]
      [] ty = "DateTime" -> BOOLEAN
      [] OTHER -> {"()"}

\* what the buffer holds before the call: nothing, or "8="
BuffersBefore == {<<>>, <<56, EQUAL_SIGN>>}

\* a field type, a value of it, settings and a buffer are picked
InitSerialize ==
    /\ \E ty \in Types \cup {"DateTime"} :
           codec_in \in [op : {"serialize"}, ty : {ty}, value : Values(ty),
                         settings : Settings(ty), buffer : BuffersBefore]
    /\ codec_out = [op |-> "none"]
    /\ overflow_checks \in BOOLEAN
    /\ separator = PIPE
    /\ verify_checksum = TRUE
    /\ data = <<>>
    /\ pc = "codec"
    /\ result = NoResult
    /\ BufferedIdle
    /\ EntriesIdle
    /\ AccessIdle
    /\ EncoderIdle

\* value.serialize(&mut buffer)
Serialize ==
    /\ pc = "codec"
    /\ codec_in.op = "serialize"
    /\ codec_out' = [op |-> "serialize",
                     out |-> serialize(codec_in.ty, codec_in.value, codec_in.buffer)]
    /\ CodecUnchanged

\* value.serialize_with(&mut buffer, &settings)
SerializeWith ==
    /\ pc = "codec"
    /\ codec_in.op = "serialize"
    /\ codec_out' = [op |-> "serialize_with",
                     out |-> serialize_with(codec_in.ty, codec_in.value,
                                            codec_in.buffer, codec_in.settings)]
    /\ CodecUnchanged

NextSerialize == Serialize \/ SerializeWith

SpecSerialize == InitSerialize /\ [][NextSerialize]_vars

----------------------------------------------------------------------------
(* Properties of RawDecoder::decode *)

\* decode has returned (for the input, or for the altered input)
Decoded == pc \in {"decoded", "altered"}

\* 0-based index of the first byte b of d (Len(d) when there is none)
IndexOf(d, b) ==
    IF \E i \in 1..Len(d) : d[i] = b
    THEN (CHOOSE i \in 1..Len(d) : d[i] = b /\ \A j \in 1..(i - 1) : d[j] # b) - 1
    ELSE Len(d)

\* the header of the input as HeaderInfo::parse reads it
InputHeader == HeaderInfo_parse(data, separator)

\* the bytes preceding the CheckSum field
BeforeCheckSum(d) == SubSeq(d, 1, Len(d) - FIELD_CHECKSUM_LEN_IN_BYTES)

\* the three bytes just before the final byte
CheckSumDigits(d) == SubSeq(d, Len(d) - 3, Len(d) - 1)

\* C1: whenever decode returns Ok(frame), the payload starts right after the
\* separator of the BodyLength field, its length is the integer parsed from
\* that field, and it ends 7 bytes before the end of the input.
C1_PayloadRegion ==
    (Decoded /\ result.kind = "Ok") =>
        /\ result.payload[1] = InputHeader.info.i_sep[2] + 1
        /\ result.payload[2] - result.payload[1] = InputHeader.info.body_length
        /\ result.payload[2] = Len(data) - FIELD_CHECKSUM_LEN_IN_BYTES

\* length, header and declared body length of the input are valid
WellFramed ==
    /\ Len(data) >= MIN_FIX_MESSAGE_LEN_IN_BYTES
    /\ InputHeader.ok
    /\ start_of_body(InputHeader.info) + InputHeader.info.body_length
           = Len(data) - FIELD_CHECKSUM_LEN_IN_BYTES

\* C2: with verify_checksum = true, decode returns Ok only if the three digits
\* before the final byte are (sum of the bytes preceding the CheckSum field)
\* mod 256, and a well-framed input whose digits differ gets Err(CheckSum).
C2_CheckSumVerified ==
    (Decoded /\ verify_checksum) =>
        LET expected == Digits3(SumBytes(BeforeCheckSum(data)) % 256) IN
        /\ result.kind = "Ok" => CheckSumDigits(data) = expected
        /\ (WellFramed /\ CheckSumDigits(data) # expected) => result = Err("CheckSum")

\* a well-framed input with wrong checksum digits has been refused with CheckSum
C2_Witness ==
    /\ pc = "decoded"
    /\ verify_checksum
    /\ WellFramed
    /\ CheckSumDigits(data) = <<48, 48, 48>>
    /\ result = Err("CheckSum")

\* C3: decode returns Ok or one of Length, Invalid, CheckSum for every input
\* and every separator; it never panics.
C3_NeverPanics ==
    Decoded =>
        \/ result.kind = "Ok"
        \/ result.kind = "Err" /\ result.err \in {"Length", "Invalid", "CheckSum"}

\* C4: an accepted frame whose declared BodyLength is changed by +1 or -1 is
\* refused with Err(Length).
C4_AlteredBodyLengthIsLength ==
    pc = "altered" => result = Err("Length")

\* C5: every input shorter than the minimum frame length gets Err(Length),
\* whatever its header looks like.
C5_ShortIsLength ==
    (Decoded /\ Len(data) < MIN_FIX_MESSAGE_LEN_IN_BYTES) => result = Err("Length")

\* a non-empty, too short input whose header is malformed has been refused
\* with Length
C5_Witness ==
    /\ pc = "decoded"
    /\ Len(data) > 0
    /\ Len(data) < MIN_FIX_MESSAGE_LEN_IN_BYTES
    /\ ~InputHeader.ok
    /\ result = Err("Length")

\* the CheckSum field immediately follows the separator of the BodyLength field
EmptyPayload ==
    /\ InputHeader.ok
    /\ start_of_body(InputHeader.info) = Len(data) - FIELD_CHECKSUM_LEN_IN_BYTES

\* C6: decode returns Err for every message whose payload is empty.
C6_EmptyPayloadRejected ==
    (Decoded /\ EmptyPayload) => result.kind = "Err"

\* C7: every frame returned by decode starts with the bytes '8' and '='.
C7_StartsWithBeginString ==
    (Decoded /\ result.kind = "Ok") => (data[1] = 56 /\ data[2] = EQUAL_SIGN)

IsDigit(b) == b \in ASCII_ZERO..(ASCII_ZERO + 9)

\* C8: with checksum verification enabled, every frame returned by decode ends
\* with '1', '0', '=', three ASCII digits and the separator.
C8_EndsWithCheckSumField ==
    (Decoded /\ result.kind = "Ok" /\ verify_checksum) =>
        LET n == Len(data) IN
        /\ SubSeq(data, n - 6, n - 4) = TAG_CHECK_SUM \o <<EQUAL_SIGN>>
        /\ \A i \in (n - 3)..(n - 1) : IsDigit(data[i])
        /\ data[n] = separator

\* C9: begin_string() of a returned frame is the bytes from index 2 up to the
\* first separator, also when the value contains '='.
C9_BeginStringValue ==
    (Decoded /\ result.kind = "Ok") =>
        Slice(data, result.begin_string) = Slice(data, <<2, IndexOf(data, separator)>>)

----------------------------------------------------------------------------
(* Properties of RawDecoderBuffered *)

\* C10: a buffered decoder that holds no bytes (fresh, or just cleared) has no
\* current frame: raw_frame() returns Ok(None), not an error.
C10_EmptyHasNoFrame ==
    (last.op = "raw_frame" /\ buffer = <<>>) => last.kind = "OkNone"

\* C11: when the concatenation of N valid frames is streamed through
\* supply_buffer / fill / raw_frame, all N frames are eventually returned, in
\* stream order, each equal to the corresponding input frame.
C11_AllFramesEmitted == <>(emitted = frames)


\* C12: once raw_frame has returned an Err, every supply_buffer call made before
\* the next clear() refuses to hand out a write buffer: it panics.
C12_PoisonedRefusesWrites ==
    (last.op = "supply_buffer" /\ erred) => last.kind = "Panic"


\* C13: clear() empties the buffer and drops the stored parse error, whatever
\* the state before it; the supply_buffer call that follows returns a slice of
\* exactly the minimum frame length and does not panic.
C13_ClearReturnsToEmpty ==
    /\ last.op = "clear" => (buffer = <<>> /\ parsing_err = "None")
    /\ (last.op = "supply_buffer" /\ prev.op = "clear") =>
           /\ last.kind = "Slice"
           /\ last.slice = <<0, MIN_FIX_MESSAGE_LEN_IN_BYTES>>
           /\ Len(buffer) = MIN_FIX_MESSAGE_LEN_IN_BYTES

\* a poisoned decoder (one that stores a parse error) was cleared and then
\* handed out a slice
C13_Witness ==
    /\ last.op = "supply_buffer"
    /\ prev.op = "clear"
    /\ prev.err = "Invalid"
    /\ last.kind = "Slice"


\* C14: whenever the buffered bytes are one complete frame that
\* RawDecoder::decode accepts, raw_frame returns Ok(Some(frame)) with the
\* begin_string and payload decode gives, a frame of the minimum length included.
C14_CompleteFrameReturned ==
    LET r == decode(buffer, separator, verify_checksum, overflow_checks) IN
    (last.op = "raw_frame" /\ r.kind = "Ok") =>
        /\ last.kind = "Ok"
        /\ last.begin_string = r.begin_string
        /\ last.payload = r.payload


----------------------------------------------------------------------------
(* Properties of the Entries iterator *)

\* the entries yielded so far by next(), and by next_back()
Front == SelectSeq(yields, LAMBDA y : y.op = "next")
Back == SelectSeq(yields, LAMBDA y : y.op = "next_back")

GroupLen == Len(it.group)

\* C15: on a group of n entries, next() alone yields entry(0), entry(1), ...,
\* entry(n-1) in that order and then None; next_back() alone yields the same
\* entries in the reverse order and then None.
C15_WireOrder ==
    /\ called \subseteq {"next"} =>
           /\ Len(yields) <= GroupLen
           /\ \A k \in 1..Len(yields) :
                  /\ yields[k].idx = k - 1
                  /\ yields[k].entry = entry(it.group, k - 1)
           /\ (it_last.op = "next" /\ ~it_last.out.some) => Len(yields) = GroupLen
           /\ (it_last.op = "next" /\ it_last.out.some) =>
                  (~none_seen /\ it_last.out.idx = Len(yields) - 1)
    /\ called \subseteq {"next_back"} =>
           /\ Len(yields) <= GroupLen
           /\ \A k \in 1..Len(yields) :
                  /\ yields[k].idx = GroupLen - k
                  /\ yields[k].entry = entry(it.group, GroupLen - k)
           /\ (it_last.op = "next_back" /\ ~it_last.out.some) => Len(yields) = GroupLen
           /\ (it_last.op = "next_back" /\ it_last.out.some) =>
                  (~none_seen /\ it_last.out.idx = GroupLen - Len(yields))

\* next() alone went through a group of the largest size and then returned None
C15_Witness ==
    /\ called = {"next"}
    /\ GroupLen = MaxGroupLen
    /\ Len(yields) = GroupLen
    /\ ~it_last.out.some


\* the number of entries not yet yielded from either end
Remaining == GroupLen - Len(yields)

\* C16: after any sequence of next() and next_back() calls, size_hint() is
\* (r, Some(r)) and len() is r, where r is the number of entries not yet
\* yielded from either end.
C16_ExactSize ==
    /\ size_hint(it) = Remaining
    /\ Entries_len(it) = Remaining

\* C17: under any interleaving of next() and next_back() the two cursors never
\* cross: no index is yielded twice, next() yields ascending indices from 0,
\* next_back() descending indices from n-1, and None comes only when every
\* index has been yielded.
C17_CursorsNeverCross ==
    /\ it.i <= it.max_i_plus_one
    /\ it.max_i_plus_one <= GroupLen
    /\ \A j, k \in 1..Len(yields) : j # k => yields[j].idx # yields[k].idx
    /\ \A k \in 1..Len(Front) : Front[k].idx = k - 1
    /\ \A k \in 1..Len(Back) : Back[k].idx = GroupLen - k
    /\ \A k \in 1..Len(yields) : yields[k].entry = entry(it.group, yields[k].idx)
    /\ none_seen => {yields[k].idx : k \in 1..Len(yields)} = 0..(GroupLen - 1)

\* both ends were used on a group of the largest size and every entry has been
\* yielded
C17_Witness ==
    /\ GroupLen = MaxGroupLen
    /\ Len(Front) > 0
    /\ Len(Back) > 0
    /\ Len(yields) = GroupLen
    /\ none_seen

\* C18: once next() or next_back() has returned None, every later call of
\* either returns None and leaves both cursors where they are.
C18_Fused ==
    [][none_seen => (~it_last'.out.some /\ it' = it)]_vars

\* a call made after None was returned
C18_Witness ==
    /\ it_last.fused
    /\ called = {"next", "next_back"}
    /\ ~it_last.out.some
    /\ GroupLen > 0


----------------------------------------------------------------------------
(* Properties of FieldAccess *)

\* what the last fv / fvl call deserialized, and with which deserializer
LookedUp == fv_raw(message, access_last.tag)
Deserialized ==
    IF access_last.op = "fv" THEN bool_deserialize(LookedUp.raw)
    ELSE bool_deserialize_lossy(LookedUp.raw)

\* C19: fv, fvl and group return Err(None) exactly when the field is absent,
\* Err(Some(e)) exactly when it is present and (strict, resp. lossy)
\* deserialization fails with e, and Ok(v) exactly when it is present and
\* deserialization yields v.
C19_ThreeStatePresence ==
    /\ access_last.op \in {"fv", "fvl"} =>
           LET out == access_last.out IN
           /\ (out.kind = "Err" /\ ~out.err.some) <=> ~LookedUp.some
           /\ \A e \in {"WrongLength", "InvalidCharacter"} :
                  (out.kind = "Err" /\ out.err.some /\ out.err.e = e)
                      <=> (LookedUp.some /\ ~Deserialized.ok /\ Deserialized.err = e)
           /\ \A v \in BOOLEAN :
                  (out.kind = "Ok" /\ out.value = v)
                      <=> (LookedUp.some /\ Deserialized.ok /\ Deserialized.value = v)
           /\ out.kind \in {"Ok", "Err"}
           /\ (out.kind = "Err" /\ out.err.some) =>
                  out.err.e \in {"WrongLength", "InvalidCharacter"}
    /\ access_last.op = "group" =>
           LET out == access_last.out
               o == group_opt(message, access_last.tag) IN
           /\ (out.kind = "Err" /\ ~out.err.some) <=> ~o.some
           /\ (out.kind = "Err" /\ out.err.some) <=> (o.some /\ ~o.ok)
           /\ (out.kind = "Err" /\ out.err.some) => out.err.e = o.err
           /\ out.kind = "Ok" <=> (o.some /\ o.ok)
           /\ out.kind = "Ok" => out.value = o.group
           /\ out.kind \in {"Ok", "Err"}

\* a message in which one tag is absent and the other holds "X": fv has just
\* reported the present one as Err(Some(InvalidCharacter))
C19_Witness ==
    /\ access_last.op = "fv"
    /\ access_last.out = ErrSome(FALSE, "InvalidCharacter")
    /\ \E t \in Tags : ~fv_raw(message, t).some
    /\ fvl(message, access_last.tag) = Found(FALSE)


----------------------------------------------------------------------------
(* Properties of the Encoder *)

\* what decode returns for the bytes wrap() returned
Redecoded == decode(encoder.buffer, separator, TRUE, overflow_checks)

\* the payload start_message and the appended fields stand for
EncodedPayload ==
    Dec(MSG_TYPE) \o <<EQUAL_SIGN>> \o encoded.msg_type \o <<separator>>
        \o encoded.appended

\* C20: the bytes wrap() returns are accepted by RawDecoder::decode (same
\* separator, checksum verified), with the begin string given to start_message
\* and the payload "35=<msg_type><sep>" followed by the appended fields.
C20_FrameRoundTrip ==
    pc = "wrapped" =>
        /\ Redecoded.kind = "Ok"
        /\ Slice(encoder.buffer, Redecoded.begin_string) = encoded.begin_string
        /\ Slice(encoder.buffer, Redecoded.payload) = EncodedPayload


\* the body length wrap() saw: the CheckSum field it appended is not counted
WrappedBodyLength == Len(encoder.buffer) - FIELD_CHECKSUM_LEN_IN_BYTES - encoder.body_start_i

\* six zero-padded decimal digits of n, most significant first
SixDigits(n) == [k \in 1..6 |-> ASCII_ZERO + ((n \div (10 ^ (6 - k))) % 10)]

\* C21: wrap() writes into the six reserved bytes the six-digit, zero-padded
\* decimal representation of body_length = buffer length at wrap time minus
\* the body-start offset.
C21_BodyLengthDigits ==
    pc = "wrapped" =>
        Slice(encoder.buffer, body_length_writable_range(encoder))
            = SixDigits(WrappedBodyLength)


\* the bytes of the wrapped message that precede its last 7 bytes
BeforeLastField == SubSeq(encoder.buffer, 1, Len(encoder.buffer) - FIELD_CHECKSUM_LEN_IN_BYTES)

\* C22: wrap() appends "10=DDD<sep>" as the last field, DDD being the three
\* zero-padded digits of the sum modulo 256 of all bytes before that field,
\* body-length digits as patched included.
C22_CheckSumAppended ==
    pc = "wrapped" =>
        /\ Len(encoder.buffer) >= FIELD_CHECKSUM_LEN_IN_BYTES
        /\ SubSeq(encoder.buffer, Len(encoder.buffer) - 6, Len(encoder.buffer))
               = <<49, 48, EQUAL_SIGN>>
                     \o Digits3(SumBytes(BeforeLastField) % 256)
                     \o <<separator>>

\* a message with appended fields was wrapped, and its patched body-length
\* digits are not the placeholder's
C22_Witness ==
    /\ pc = "wrapped"
    /\ encoded.fields = MaxFields
    /\ Slice(encoder.buffer, body_length_writable_range(encoder))
           # [k \in 1..6 |-> ASCII_ZERO]

\* C23: start_message discards every byte of an earlier message: what wrap()
\* returns is what a fresh encoder gives for the begin string, message type and
\* fields given since the matching start_message, and it begins with
\* "8=<begin_string><sep>9=".
C23_EarlierMessageDiscarded ==
    /\ pc = "wrapped" =>
           encoder.buffer
               = wrap(raw(start_message([buffer |-> <<>>, body_start_i |-> 0],
                                        encoded.begin_string, encoded.msg_type,
                                        separator),
                          encoded.appended), separator).buffer
    /\ pc \in {"handle", "wrapped"} =>
           LET prefix == <<56, EQUAL_SIGN>> \o encoded.begin_string
                             \o <<separator, 57, EQUAL_SIGN>> IN
           /\ Len(encoder.buffer) >= Len(prefix)
           /\ SubSeq(encoder.buffer, 1, Len(prefix)) = prefix

\* a message was wrapped in a buffer that held an earlier message when
\* start_message was called
C23_Witness ==
    /\ pc = "wrapped"
    /\ encoded.reused
    /\ encoded.fields > 0


----------------------------------------------------------------------------
(* Properties of the field types *)

\* what the strict deserializer gives for the input under study
Strict == deserialize(codec_in.ty, codec_in.data, overflow_checks)

\* C24: for every field type and every input on which deserialize returns
\* Ok(v), deserialize_lossy returns Ok(v) on the same input.
C24_LossyConsistency ==
    (/\ codec_out.op = "deserialize_lossy"
     /\ ~Strict.panicked
     /\ Strict.res.ok) =>
        /\ ~codec_out.out.panicked
        /\ codec_out.out.res.ok
        /\ codec_out.out.res.value = Strict.res.value

\* C25: neither deserialize nor deserialize_lossy panics, whatever the field
\* type and the input bytes.
C25_DeserializeNeverPanics ==
    codec_out.op \in {"deserialize", "deserialize_lossy"} => ~codec_out.out.panicked


\* the bytes the call under study appended to the buffer
Appended ==
    SubSeq(codec_out.out.buffer, Len(codec_in.buffer) + 1, Len(codec_out.out.buffer))

\* the digits of v left-padded with byte to a width of at least len
Padded(v, len, byte) ==
    LET digits == Dec(v) IN
    IF Len(digits) >= len THEN digits
    ELSE [k \in 1..(len - Len(digits)) |-> byte] \o digits

\* C26: u32 serialize_with(Padding{len, byte}) appends the decimal digits of
\* the value left-padded with byte to max(len, number of digits) bytes.
C26_PaddedWidth ==
    (codec_out.op = "serialize_with" /\ codec_in.ty = "u32") =>
        Appended = Padded(codec_in.value, codec_in.settings.len, codec_in.settings.byte)

\* C27: serialize and serialize_with leave the bytes already in the buffer
\* alone and return the number of bytes they appended, which for a UTC
\* timestamp is 21 with milliseconds and 17 without.
C27_AppendsAndCounts ==
    codec_out.op \in {"serialize", "serialize_with"} =>
        /\ Len(codec_out.out.buffer) >= Len(codec_in.buffer)
        /\ SubSeq(codec_out.out.buffer, 1, Len(codec_in.buffer)) = codec_in.buffer
        /\ codec_out.out.n = Len(Appended)
        /\ codec_in.ty = "DateTime" =>
               Len(Appended) = IF codec_out.op = "serialize" \/ codec_in.settings
                               THEN 21 ELSE 17

\* the types of the value round trip
RoundTripTypes == IntTypes \cup {"bool", "u8", "bytes", "array"}

\* what deserialize gives for the bytes serialize wrote
ReadBack == deserialize(codec_in.ty, codec_out.out.buffer, overflow_checks)

\* C28: deserialize(serialize(v)) = v for every value of the integer types,
\* bool, u8, byte slices and fixed-length byte arrays, serialize writing into
\* an empty buffer.
C28_ValueRoundTrip ==
    (/\ codec_out.op = "serialize"
     /\ codec_in.ty \in RoundTripTypes
     /\ codec_in.buffer = <<>>) =>
        /\ ~ReadBack.panicked
        /\ ReadBack.res.ok
        /\ ReadBack.res.value = codec_in.value

\* the smallest i32 was serialized into an empty buffer
C28_Witness ==
    /\ codec_out.op = "serialize"
    /\ codec_in.ty = "i32"
    /\ codec_in.buffer = <<>>
    /\ codec_in.value = MinOf("i32")
    /\ codec_out.out.buffer[1] = 45


\* a step that is a call of supply_buffer
SupplyBufferStep == pc = "buffered" /\ pc' \in {"filling", "panicked"}

\* start_of_body + body_length + 7 for the header in the buffer
TotalLen ==
    LET info == HeaderInfo_parse(buffer, separator).info IN
    start_of_body(info) + RangeLen(body_range(info)) + FIELD_CHECKSUM_LEN_IN_BYTES

\* not poisoned, and at least the minimum frame length is buffered
HeaderPresent == parsing_err = "None" /\ Len(buffer) >= MIN_FIX_MESSAGE_LEN_IN_BYTES

\* C29: in the header-present state supply_buffer sets the buffer length to
\* start_of_body + body_length + 7, does not reduce it below the bytes
\* already filled, and returns the bytes from the previous length to that
\* length.
C29_GrowsToTotalLen ==
    [][(SupplyBufferStep /\ HeaderPresent) =>
           /\ Len(buffer') = TotalLen
           /\ Len(buffer') >= Len(buffer)
           /\ last'.kind = "Slice"
           /\ last'.slice = <<Len(buffer), TotalLen>>]_vars


\* b is the beginning of a frame that decode accepts
PrefixOfAccepted(b) ==
    \E f \in GoodFrames(separator) :
        /\ decode(f, separator, verify_checksum, overflow_checks).kind = "Ok"
        /\ Len(b) <= Len(f)
        /\ b = SubSeq(f, 1, Len(b))

\* C30: supply_buffer does not panic on a decoder that is not poisoned and
\* whose buffered bytes are the beginning of a frame decode accepts, also when
\* the second separator of the header is not among the first 14 bytes.
C30_NoPanicOnPrefix ==
    [][(SupplyBufferStep /\ parsing_err = "None" /\ PrefixOfAccepted(buffer)) =>
           last'.kind = "Slice"]_vars


\* the indices entry() was called with so far
EntryCalls == {yields[k].idx : k \in 1..Len(yields)}

\* C31: after any sequence of next() and next_back() calls on a group of
\* constant length, 0 <= i <= max_i_plus_one <= group.len(); so the
\* subtraction of size_hint does not underflow and entry() is only called
\* with an index below group.len().
C31_CursorBounds ==
    /\ 0 <= it.i
    /\ it.i <= it.max_i_plus_one
    /\ it.max_i_plus_one <= GroupLen
    /\ size_hint(it) >= 0
    /\ EntryCalls \subseteq 0..(GroupLen - 1)

\* the two cursors met inside a group of the largest size, entry() having
\* been called with the first and with the last index
C31_Witness ==
    /\ GroupLen = MaxGroupLen
    /\ it.i = it.max_i_plus_one
    /\ 0 < it.i
    /\ it.i < GroupLen
    /\ {0, GroupLen - 1} \subseteq EntryCalls
    /\ it_last.op = "next"
    /\ ~it_last.out.some

====
